---- MODULE Spec2Model ----
(***************************************************************************)
(* A model of the three autopkg processors of src/macOS:                   *)
(*   macOSReleaseProvider  resolves the newest offered macOS installer,    *)
(*   macOSDownloader       makes sure that installer is in the recipe      *)
(*                         cache, downloading it when it is not on disk,   *)
(*   DownloadMacOS         does both without a cache.                      *)
(* Text (catalog output, version strings) is a sequence of one-character   *)
(* strings, so that splitting, trimming and string comparison are computed *)
(* character by character as Python computes them.  Paths are TLA+         *)
(* strings.  The external tools (softwareupdate, hdiutil, the file system) *)
(* are the environment: what they answer is carried by the state.          *)
(***************************************************************************)
EXTENDS Integers, Sequences, FiniteSets, TLC

\* ------------------------------------------------------------------ bounds
\* number of entries /Applications may hold
MaxApps == 2
\* number of processor runs in one behaviour
MaxRuns == 2

\* ------------------------------------------------------------------ text
DigitChars == <<"0", "1", "2", "3", "4", "5", "6", "7", "8", "9">>

IsDigit(c) == \E i \in 1..Len(DigitChars) : DigitChars[i] = c

DigitVal(c) == (CHOOSE i \in 1..Len(DigitChars) : DigitChars[i] = c) - 1

\* A path is the tuple of its components (os.path.join appends components).
\* Python's None, for the functions that return a path or None
None == <<"None">>

\* Python truthiness of a path-or-None value: None and '' are false
Truthy(x) == x # None /\ x # <<>>

\* the index of the first occurrence of character c in s from index i on, 0
\* when there is none
RECURSIVE IndexFrom(_, _, _)
IndexFrom(s, c, i) ==
  IF i > Len(s) THEN 0 ELSE IF s[i] = c THEN i ELSE IndexFrom(s, c, i + 1)

IndexOf(s, c) == IndexFrom(s, c, 1)

\* str.split(sep) for a one-character separator: the pieces between separators
RECURSIVE Split(_, _)
Split(s, sep) ==
  LET i == IndexOf(s, sep)
  IN  IF i = 0 THEN <<s>>
      ELSE <<SubSeq(s, 1, i - 1)>> \o Split(SubSeq(s, i + 1, Len(s)), sep)

\* int(s) of a string of decimal digits
RECURSIVE IntOf(_)
IntOf(s) ==
  IF s = <<>> THEN 0
  ELSE 10 * IntOf(SubSeq(s, 1, Len(s) - 1)) + DigitVal(s[Len(s)])

RECURSIVE NonEmpty(_)
NonEmpty(parts) ==
  IF parts = <<>> THEN <<>>
  ELSE (IF Head(parts) = <<>> THEN <<>> ELSE <<Head(parts)>>) \o NonEmpty(Tail(parts))

\* distutils LooseVersion(vstring).version for a string of digits and dots: the
\* maximal digit runs, each converted to an int; the dots are dropped
LooseVersion(v) ==
  LET runs == NonEmpty(Split(v, "."))
  IN  [i \in 1..Len(runs) |-> IntOf(runs[i])]

\* a comparison that takes any two versions for equal
VersionEq_AnyVersion(a, b) == [exc |-> "none", eq |-> TRUE]

\* LooseVersion(a) == LooseVersion(b).  LooseVersion('') never parses, so it has
\* no version attribute and comparing it raises AttributeError.
VersionEq(a, b) ==
  IF a = <<>> \/ b = <<>> THEN [exc |-> "AttributeError", eq |-> FALSE]
  ELSE [exc |-> "none", eq |-> LooseVersion(a) = LooseVersion(b)]

\* the characters of the model's texts in code point order: Python compares
\* strings character by character by code point
CodePoints ==
  <<"\n", " ", "*", ",", ".", "0", "1", "2", "3", "4", "5", "6", "7", "8", "9", ":",
    "B", "F", "K", "M", "O", "S", "T", "V", "a", "b", "c", "d", "e", "f", "g", "i",
    "l", "m", "n", "o", "r", "s", "t", "u", "v", "w", "y", "z">>

Ord(c) == CHOOSE i \in 1..Len(CodePoints) : CodePoints[i] = c

\* a < b for Python strings
RECURSIVE StrLess(_, _)
StrLess(a, b) ==
  IF b = <<>> THEN FALSE
  ELSE IF a = <<>> THEN TRUE
  ELSE IF Head(a) # Head(b) THEN Ord(Head(a)) < Ord(Head(b))
  ELSE StrLess(Tail(a), Tail(b))

\* sub in s, for strings
Contains(s, sub) ==
  \E i \in 0..(Len(s) - Len(sub)) : SubSeq(s, i + 1, i + Len(sub)) = sub

\* str.strip(): without the leading and trailing white space
RECURSIVE Strip(_)
Strip(s) ==
  IF s = <<>> THEN s
  ELSE IF Head(s) \in {" ", "\n"} THEN Strip(Tail(s))
  ELSE IF s[Len(s)] \in {" ", "\n"} THEN Strip(SubSeq(s, 1, Len(s) - 1))
  ELSE s

\* str.rstrip(c): without the trailing characters c
RECURSIVE RStrip(_, _)
RStrip(s, c) ==
  IF s # <<>> /\ s[Len(s)] = c THEN RStrip(SubSeq(s, 1, Len(s) - 1), c) ELSE s

\* whether int(s) parses: a non-empty string of decimal digits
IsInt(s) == s # <<>> /\ \A i \in 1..Len(s) : IsDigit(s[i])

\* A Python int is unbounded; one that may exceed 32 bits is kept as its decimal
\* numeral without leading zeros.
RECURSIVE Numeral(_)
Numeral(digits) ==
  IF Len(digits) > 1 /\ Head(digits) = "0" THEN Numeral(Tail(digits)) ELSE digits

\* n * 1000 on numerals
Times1000(n) == IF n = <<"0">> THEN n ELSE n \o <<"0", "0", "0">>

RECURSIVE Join(_, _)
Join(lines, sep) ==
  IF lines = <<>> THEN <<>>
  ELSE IF Len(lines) = 1 THEN Head(lines)
  ELSE Head(lines) \o <<sep>> \o Join(Tail(lines), sep)

V_12_3 == <<"1", "2", ".", "3">>
V_12_03 == <<"1", "2", ".", "0", "3">>
V_12_9 == <<"1", "2", ".", "9">>
V_12_10 == <<"1", "2", ".", "1", "0">>
EmptyString == <<>>

\* ------------------------------------------------------------------ catalog
\* the texts of the catalog listing
Marker == <<"V", "e", "r", "s", "i", "o", "n">>
KeyTitle == <<"T", "i", "t", "l", "e", ":", " ">>
KeyVersion == <<"V", "e", "r", "s", "i", "o", "n", ":", " ">>
KeySize == <<"S", "i", "z", "e", ":", " ">>
CommaSpace == <<",", " ">>
Monterey == <<"m", "a", "c", "O", "S", " ", "M", "o", "n", "t", "e", "r", "e", "y">>
Ventura == <<"m", "a", "c", "O", "S", " ", "V", "e", "n", "t", "u", "r", "a">>
VenturaBeta == <<"m", "a", "c", "O", "S", " ", "V", "e", "n", "t", "u", "r", "a", ":", " ", "B", "e", "t", "a">>
Size_9453092K == <<"9", "4", "5", "3", "0", "9", "2", "K">>
Size_11927386KiB == <<"1", "1", "9", "2", "7", "3", "8", "6", "K", "i", "B">>
Header == <<"F", "i", "n", "d", "i", "n", "g", " ", "a", "v", "a", "i", "l", "a", "b", "l", "e", " ", "s", "o", "f", "t", "w", "a", "r", "e">>
V_13_0 == <<"1", "3", ".", "0">>

\* one line of the listing: "Title: <name>, Version: <version>, Size: <size>"
CatalogLine(name, version, size) ==
  KeyTitle \o name \o CommaSpace \o KeyVersion \o version \o CommaSpace \o KeySize \o size

\* the lines softwareupdate can print: installers of three versions of one
\* release, one whose title holds a colon, one whose size has the unit KiB, and
\* the header line
CatalogLines ==
  {CatalogLine(Monterey, V_12_3, Size_9453092K),
   CatalogLine(Monterey, V_12_9, Size_9453092K),
   CatalogLine(Monterey, V_12_10, Size_9453092K),
   CatalogLine(VenturaBeta, V_13_0, Size_9453092K),
   CatalogLine(Ventura, V_13_0, Size_11927386KiB),
   Header}

\* number of lines of a listing
MaxLines == 2

Listings == UNION {[1..n -> CatalogLines] : n \in 0..MaxLines}

NoCatalog == [exec |-> "ok", status |-> 0, stdout |-> EmptyString]

\* every non-empty line taken for a candidate
IsCandidate_AnyLine(line) == line # <<>>

\* "Version" in line
IsCandidate(line) == Contains(line, Marker)

NoUpdate == [name |-> EmptyString, version |-> EmptyString, size |-> EmptyString]

\* [s.split(':')[1].strip() for s in line.split(',')] and the dict made of its
\* first three items; to_bytes says whether the size is converted with
\* int(size.rstrip('K')) * 1000 (DownloadMacOS) or kept as text (macOSReleaseProvider)
ParseLine(line, to_bytes) ==
  LET segments == Split(line, ",")
      pieces == [i \in 1..Len(segments) |-> Split(segments[i], ":")]
      update_info == [i \in 1..Len(segments) |-> Strip(pieces[i][2])]
      count == RStrip(update_info[3], "K")
  IN  IF \E i \in 1..Len(segments) : Len(pieces[i]) < 2
        THEN [exc |-> "IndexError", update |-> NoUpdate]
      ELSE IF Len(segments) < 3 THEN [exc |-> "IndexError", update |-> NoUpdate]
      ELSE IF to_bytes /\ ~IsInt(count) THEN [exc |-> "ValueError", update |-> NoUpdate]
      ELSE [exc |-> "none",
            update |-> [name |-> update_info[1], version |-> update_info[2],
                        size |-> IF to_bytes THEN Times1000(Numeral(count))
                                 ELSE update_info[3]]]

\* the candidate lines of the output, in order
Candidates(stdout) == SelectSeq(Split(stdout, "\n"), IsCandidate)

\* sorted(update_list, key=lambda k: k['version'], reverse=True)[0]: the sort
\* compares the version strings and is stable, so the first of the records with
\* the greatest version string
Latest(update_list) ==
  update_list[CHOOSE i \in 1..Len(update_list) :
                /\ \A j \in 1..Len(update_list) :
                      ~StrLess(update_list[i].version, update_list[j].version)
                /\ \A j \in 1..(i - 1) :
                      StrLess(update_list[j].version, update_list[i].version)]

\* get_update of both processors.  subprocess.run has no check=True: it raises
\* only when the command cannot be executed, and the exit status is not read.
get_update(cat, to_bytes) ==
  LET lines == Candidates(cat.stdout)
      parsed == [i \in 1..Len(lines) |-> ParseLine(lines[i], to_bytes)]
      update_list == [i \in 1..Len(lines) |-> parsed[i].update]
      bad == {i \in 1..Len(lines) : parsed[i].exc # "none"}
  IN  IF cat.exec # "ok"
        THEN [exc |-> "ProcessorError: OSError", update |-> NoUpdate]
      ELSE IF bad # {}
        THEN [exc |-> parsed[CHOOSE i \in bad : \A j \in bad : i <= j].exc, update |-> NoUpdate]
      ELSE IF update_list = <<>>
        THEN [exc |-> "ProcessorError: no updates", update |-> NoUpdate]
      ELSE [exc |-> "none", update |-> Latest(update_list)]

\* ------------------------------------------------------------------ data
\* The embedded support image of a bundle, and how hdiutil and the nested
\* property list behave for it:
\*   attach   "ok": hdiutil attach succeeds and lists a mount point,
\*            "nomp": it succeeds but no system entity has a mount point,
\*            "fail": it exits non-zero (check_output raises);
\*   readable whether plistlib.readPlist exists (it does up to Python 3.8), parses
\*            the nested asset descriptor and finds Assets[0].OSVersion in it;
\*   asset    that OSVersion;
\*   busy     whether hdiutil detach of its mount point exits non-zero.
NoImage == [attach |-> "fail", readable |-> FALSE, asset |-> EmptyString, busy |-> FALSE]

Images ==
  [attach : {"ok"}, readable : {TRUE}, asset : {V_12_3}, busy : BOOLEAN]
  \cup [attach : {"ok"}, readable : {FALSE}, asset : {EmptyString}, busy : BOOLEAN]
  \cup [attach : {"fail", "nomp"}, readable : {FALSE}, asset : {EmptyString}, busy : {FALSE}]

\* the image of a bundle softwareupdate has just fetched
FetchedImage(version) == [attach |-> "ok", readable |-> TRUE, asset |-> version, busy |-> FALSE]

\* What an entry of /Applications is made of, apart from its name:
\*   marker        Contents/Resources/startosinstall exists,
\*   hasPlist      Contents/SharedSupport/InstallInfo.plist is a file,
\*   plistVersion  its "System Image Info:version",
\*   hasDmg        Contents/SharedSupport/SharedSupport.dmg is a file.
BundleKinds ==
  [marker : {TRUE}, hasPlist : {TRUE}, plistVersion : {V_12_3, V_12_10},
   hasDmg : {FALSE}, dmg : {NoImage}]
  \cup [marker : {FALSE}, hasPlist : {TRUE}, plistVersion : {V_12_3},
        hasDmg : {FALSE}, dmg : {NoImage}]
  \cup [marker : {TRUE}, hasPlist : {FALSE}, plistVersion : {EmptyString},
        hasDmg : {FALSE}, dmg : {NoImage}]
  \cup [marker : {TRUE}, hasPlist : {FALSE}, plistVersion : {EmptyString},
        hasDmg : {TRUE}, dmg : Images]
  \cup [marker : {TRUE}, hasPlist : {TRUE}, plistVersion : {V_12_10},
        hasDmg : {TRUE}, dmg : {FetchedImage(V_12_3)}]

\* the names os.listdir('/Applications') can return, in the order entries are created
AppNames == <<"A.app", "B.app", "C.app", "D.app", "E.app", "F.app", "G.app", "H.app">>

Bundle(name, kind) ==
  [name |-> name, marker |-> kind.marker, hasPlist |-> kind.hasPlist,
   plistVersion |-> kind.plistVersion, hasDmg |-> kind.hasDmg, dmg |-> kind.dmg]

\* os.path.join(dir, item)
ItemPath(dir, item) == dir \o <<item>>

ApplicationsDir == <<"/Applications">>

\* os.path.join(app_path, 'Contents/SharedSupport/SharedSupport.dmg')
SharedSupportDmg(app_path) == app_path \o <<"Contents/SharedSupport/SharedSupport.dmg">>

\* the mount point hdiutil gives the support image of a bundle
VolumeOf(image_path) == <<"/Volumes">> \o image_path

\* a system entity of hdiutil's structured output without a 'mount-point' key
NoMountPoint == <<"dev-entry">>

\* ------------------------------------------------------------------ hdiutil
\* The disk-image utility: the attached images (hdiutil info's 'images', each
\* with its image-path, its system-entities and whether detaching it fails) and
\* the number of info, attach and detach invocations so far.
NoImages == [images |-> <<>>, info |-> 0, attach |-> 0, detach |-> 0]

\* the first entity of an entity list that has a mount point, None when none has
FirstMountPoint(entities) ==
  IF \E j \in 1..Len(entities) : entities[j] # NoMountPoint
    THEN entities[CHOOSE j \in 1..Len(entities) :
                    /\ entities[j] # NoMountPoint
                    /\ \A k \in 1..(j - 1) : entities[k] = NoMountPoint]
    ELSE None

\* get_dmg_mount_point comparing the image-path with a path no image has: it
\* never finds the image
get_dmg_mount_point_blind(hd, path) == [ret |-> None, hd |-> [hd EXCEPT !.info = @ + 1]]

\* get_dmg_mount_point: one hdiutil info (taken to succeed); the mount point of
\* the first attached image with this image-path that has one
get_dmg_mount_point(hd, path) ==
  LET imgs == hd.images
      hit(i) == imgs[i].path = path /\ FirstMountPoint(imgs[i].entities) # None
      ret == IF \E i \in 1..Len(imgs) : hit(i)
               THEN FirstMountPoint(
                      imgs[CHOOSE i \in 1..Len(imgs) :
                             hit(i) /\ \A k \in 1..(i - 1) : ~hit(k)].entities)
               ELSE None
  IN  [ret |-> ret, hd |-> [hd EXCEPT !.info = @ + 1]]

\* hdiutil attach path -nobrowse -plist
Attach(hd, path, image) ==
  LET entities == IF image.attach = "ok"
                    THEN <<NoMountPoint, VolumeOf(path)>>
                    ELSE <<NoMountPoint>>
  IN  IF image.attach = "fail"
        THEN [ok |-> FALSE, entities |-> <<>>, hd |-> [hd EXCEPT !.attach = @ + 1]]
        ELSE [ok |-> TRUE, entities |-> entities,
              hd |-> [hd EXCEPT !.attach = @ + 1,
                                !.images = @ \o <<[path |-> path, entities |-> entities,
                                                   busy |-> image.busy]>>]]

\* mount_dmg: the mount point of the image, attaching it unless it is attached
mount_dmg(hd, path, image) ==
  LET q == get_dmg_mount_point(hd, path)
      a == Attach(q.hd, path, image)
  IN  IF Truthy(q.ret) THEN [ret |-> q.ret, exc |-> "none", hd |-> q.hd]
      ELSE IF ~a.ok THEN [ret |-> None, exc |-> "ProcessorError: Could not mount", hd |-> a.hd]
      ELSE IF FirstMountPoint(a.entities) = None
        THEN [ret |-> None, exc |-> "IndexError", hd |-> a.hd]
      ELSE [ret |-> FirstMountPoint(a.entities), exc |-> "none", hd |-> a.hd]

RECURSIVE Without(_, _)
Without(imgs, mount_point) ==
  IF imgs = <<>> THEN <<>>
  ELSE (IF FirstMountPoint(Head(imgs).entities) = mount_point THEN <<>> ELSE <<Head(imgs)>>)
       \o Without(Tail(imgs), mount_point)

\* whether hdiutil detach of this mount point exits non-zero
DetachFails(hd, mount_point) ==
  \E i \in 1..Len(hd.images) :
     FirstMountPoint(hd.images[i].entities) = mount_point /\ hd.images[i].busy

\* unmount_dmg: hdiutil detach path -force through check_output, which raises
\* CalledProcessError on a non-zero exit
unmount_dmg(hd, mount_point) ==
  IF DetachFails(hd, mount_point)
    THEN [exc |-> "CalledProcessError", hd |-> [hd EXCEPT !.detach = @ + 1]]
    ELSE [exc |-> "none",
          hd |-> [hd EXCEPT !.detach = @ + 1, !.images = Without(@, mount_point)]]

\* ------------------------------------------------------------------ installer
\* self.get_plist_key(installinfo_plist, 'System Image Info:version'): the
\* method is called but defined in none of the three files; it is taken to
\* return the value of the key
get_plist_key(bundle) == bundle.plistVersion

\* get_os_version looking at the support image before the direct descriptor
get_os_version_image_first(hd, app_path, bundle) ==
  LET m == mount_dmg(hd, SharedSupportDmg(app_path), bundle.dmg)
      u == unmount_dmg(m.hd, m.ret)
      read == IF bundle.dmg.readable THEN bundle.dmg.asset ELSE EmptyString
  IN  IF ~bundle.hasDmg
        THEN [ret |-> IF bundle.hasPlist THEN get_plist_key(bundle) ELSE EmptyString,
              exc |-> "none", hd |-> hd]
      ELSE IF m.exc # "none" THEN [ret |-> EmptyString, exc |-> m.exc, hd |-> m.hd]
      ELSE IF u.exc # "none" THEN [ret |-> EmptyString, exc |-> u.exc, hd |-> u.hd]
      ELSE [ret |-> read, exc |-> "none", hd |-> u.hd]

\* get_os_version with the unmount at the end of the try body instead of in a
\* finally clause: a failed read returns '' with the image still mounted
get_os_version_no_finally(hd, app_path, bundle) ==
  LET m == mount_dmg(hd, SharedSupportDmg(app_path), bundle.dmg)
      u == unmount_dmg(m.hd, m.ret)
  IN  IF bundle.hasPlist THEN [ret |-> get_plist_key(bundle), exc |-> "none", hd |-> hd]
      ELSE IF ~bundle.hasDmg THEN [ret |-> EmptyString, exc |-> "none", hd |-> hd]
      ELSE IF m.exc # "none" THEN [ret |-> EmptyString, exc |-> m.exc, hd |-> m.hd]
      ELSE IF ~bundle.dmg.readable THEN [ret |-> EmptyString, exc |-> "none", hd |-> m.hd]
      ELSE IF u.exc # "none" THEN [ret |-> EmptyString, exc |-> u.exc, hd |-> u.hd]
      ELSE [ret |-> bundle.dmg.asset, exc |-> "none", hd |-> u.hd]

\* get_os_version: the version of a bundle, from its InstallInfo.plist when that
\* is a file, else from the asset descriptor inside its support image, else ''.
\* The finally clause runs unmount_dmg after the try body's or the except
\* clause's return; an exception it raises replaces that return.
get_os_version(hd, app_path, bundle) ==
  LET sharedsupport_dmg == SharedSupportDmg(app_path)
      m == mount_dmg(hd, sharedsupport_dmg, bundle.dmg)
      u == unmount_dmg(m.hd, m.ret)
      read == IF bundle.dmg.readable THEN bundle.dmg.asset ELSE EmptyString
  IN  IF bundle.hasPlist THEN [ret |-> get_plist_key(bundle), exc |-> "none", hd |-> hd]
      ELSE IF ~bundle.hasDmg THEN [ret |-> EmptyString, exc |-> "none", hd |-> hd]
      ELSE IF m.exc # "none" THEN [ret |-> EmptyString, exc |-> m.exc, hd |-> m.hd]
      ELSE IF ~Truthy(m.ret) THEN [ret |-> EmptyString, exc |-> "none", hd |-> m.hd]
      ELSE IF u.exc # "none" THEN [ret |-> EmptyString, exc |-> u.exc, hd |-> u.hd]
      ELSE [ret |-> read, exc |-> "none", hd |-> u.hd]

\* ------------------------------------------------------------------ state
VARIABLES
  apps,       \* /Applications: its bundles, in os.listdir order
  cache,      \* the installer_cache_path entries that exist, with what was copied
  cacheDirs,  \* the cache_path directories that exist
  hdiutil,    \* the disk-image utility: attached images, invocations in this run
  pc,         \* per processor run: where main is
  env,        \* per processor run: self.env
  frame,      \* per processor run: the locals of main and of the scan loop
  ops,        \* per processor run: listdir, get_os_version, download, copy calls
  runs,       \* the number of runs started
  prev,       \* the outcome of the run that ended before the current one started
  lastCall,   \* the last get_os_version call: its bundle, result and hdiutil states
  catalog,    \* softwareupdate --list-full-installers: whether it runs, its exit
              \* status and its standard output
  mlog        \* the mount_dmg and unmount_dmg calls made one by one, in order

vars ==
  <<apps, cache, cacheDirs, hdiutil, pc, env, frame, ops, runs, prev, lastCall, catalog, mlog>>

\* the processor runs of the model
Procs == {1}

\* the inputs macOSReleaseProvider hands over in self.env
TargetVersions == {V_12_3, V_12_03}
Releases == {"macOS Monterey", "macOS Ventura"}

\* the cache directory without the version in its path
cache_path_unversioned(version) ==
  [root |-> "RECIPE_CACHE_DIR", sub |-> "downloads", version |-> EmptyString]

\* os.path.join(RECIPE_CACHE_DIR, "downloads", version)
cache_path(version) == [root |-> "RECIPE_CACHE_DIR", sub |-> "downloads", version |-> version]

\* os.path.join(cache_path, "Install {}.app".format(release))
installer_cache_path(version, release) == [dir |-> cache_path(version), install |-> release]

\* os.path.isfile instead of os.path.exists: a bundle is a directory, never a file
Exists_AsFile(path) == FALSE

\* os.path.exists(installer_cache_path) behind a lock: a path another run has
\* checked and not yet copied counts as existing
Exists_OrClaimed(path) ==
  \/ \E e \in cache : e.path = path
  \/ \E q \in DOMAIN pc : pc[q] \in {"scan", "download", "copy"} /\ env[q].pathname = path

\* os.path.exists(installer_cache_path)
Exists(path) == \E e \in cache : e.path = path

\* a copy that drops the release from the destination name
copytree_unnamed(entries, src, dst, copied) ==
  entries \cup {[path |-> [dst EXCEPT !.install = ""], source |-> src, complete |-> copied]}

\* shutil.copytree(src, dst): dst comes to exist, complete unless the copy failed
copytree(entries, src, dst, copied) ==
  entries \cup {[path |-> dst, source |-> src, complete |-> copied]}

\* os.listdir('/Applications')
Listdir(dir) == [i \in 1..Len(dir) |-> dir[i].name]

BundleAt(dir, item) == CHOOSE b \in {dir[i] : i \in 1..Len(dir)} : b.name = item

NoOps == [listdir |-> 0, extract |-> 0, download |-> 0, copy |-> 0]

NoEnv ==
  [version |-> EmptyString, release |-> "", cache_dir |-> cache_path(EmptyString),
   pathname |-> installer_cache_path(EmptyString, ""), changed |-> FALSE, summary |-> FALSE]

NoFrame ==
  [processor |-> "macOSDownloader", existed |-> FALSE, listing |-> <<>>, idx |-> 1, phase |-> "local", installer |-> None,
   update |-> NoUpdate, exc |-> "none"]

NoCall ==
  [valid |-> FALSE, path |-> None, bundle |-> Bundle("", [marker |-> FALSE, hasPlist |-> FALSE,
     plistVersion |-> EmptyString, hasDmg |-> FALSE, dmg |-> NoImage]),
   ret |-> EmptyString, exc |-> "none", before |-> NoImages, after |-> NoImages]

NoRun ==
  [valid |-> FALSE, version |-> EmptyString, release |-> "", existed |-> FALSE,
   changed |-> FALSE, ok |-> FALSE, downloads |-> 0, copies |-> 0]

\* what a run that has ended leaves behind for the next one to be compared with
Outcome(p) ==
  [valid |-> TRUE, version |-> env[p].version, release |-> env[p].release,
   existed |-> frame[p].existed, changed |-> env[p].changed, ok |-> pc[p] = "done",
   downloads |-> ops[p].download, copies |-> ops[p].copy]

\* the directories /Applications can be at the start: at most MaxApps entries
InitialApps ==
  UNION {[1..n -> BundleKinds] : n \in 0..MaxApps}

\* images some earlier program left attached: at most one, of a bundle whose
\* image attaches with a mount point
LeftAttached(dir) ==
  {<<>>} \cup
  {<<[path |-> SharedSupportDmg(ItemPath(ApplicationsDir, dir[i].name)),
      entities |-> <<NoMountPoint, VolumeOf(SharedSupportDmg(ItemPath(ApplicationsDir, dir[i].name)))>>,
      busy |-> dir[i].dmg.busy]>> :
     i \in {j \in 1..Len(dir) : dir[j].hasDmg /\ dir[j].dmg.attach = "ok"}}

Init ==
  /\ \E kinds \in InitialApps : apps = [i \in 1..Len(kinds) |-> Bundle(AppNames[i], kinds[i])]
  /\ cache = {}
  /\ cacheDirs = {}
  /\ \E imgs \in LeftAttached(apps) : hdiutil = [NoImages EXCEPT !.images = imgs]
  /\ pc = [p \in Procs |-> "idle"]
  /\ env = [p \in Procs |-> NoEnv]
  /\ frame = [p \in Procs |-> NoFrame]
  /\ ops = [p \in Procs |-> NoOps]
  /\ runs = 0
  /\ prev = NoRun
  /\ lastCall = NoCall
  /\ catalog = NoCatalog
  /\ mlog = <<>>

\* ------------------------------------------------------------------ macOSDownloader.main
\* main up to the first os.listdir: the paths, the cache check, changed
Start(p) ==
  /\ pc[p] \in {"idle", "done", "failed"}
  /\ runs < MaxRuns
  /\ \E version \in TargetVersions, release \in Releases :
       LET installer_cache == installer_cache_path(version, release)
           hit == Exists(installer_cache)
       IN  /\ env' = [env EXCEPT ![p] =
                        [version |-> version, release |-> release,
                         cache_dir |-> cache_path(version), pathname |-> installer_cache,
                         changed |-> ~hit, summary |-> FALSE]]
           /\ frame' = [frame EXCEPT ![p] =
                          [NoFrame EXCEPT !.existed = hit,
                                          !.listing = IF hit THEN <<>> ELSE Listdir(apps)]]
           /\ ops' = [ops EXCEPT ![p] = [NoOps EXCEPT !.listdir = IF hit THEN 0 ELSE 1]]
           /\ pc' = [pc EXCEPT ![p] = IF hit THEN "done" ELSE "scan"]
  /\ hdiutil' = [hdiutil EXCEPT !.info = 0, !.attach = 0, !.detach = 0]
  /\ prev' = IF pc[p] = "idle" THEN prev ELSE Outcome(p)
  /\ runs' = runs + 1
  /\ UNCHANGED <<apps, cache, cacheDirs, lastCall, catalog, mlog>>

\* one iteration of the loop of get_local_installer
ScanItem(p) ==
  /\ pc[p] = "scan"
  /\ frame[p].idx <= Len(frame[p].listing)
  /\ LET item == frame[p].listing[frame[p].idx]
         item_path == ItemPath(ApplicationsDir, item)
         bundle == BundleAt(apps, item)
         local_version == get_os_version(hdiutil, item_path, bundle)
         same == VersionEq(local_version.ret, env[p].version)
         exc == IF local_version.exc # "none" THEN local_version.exc ELSE same.exc
     IN  IF ~bundle.marker
           THEN /\ frame' = [frame EXCEPT ![p].idx = @ + 1]
                /\ UNCHANGED <<hdiutil, pc, env, ops, lastCall>>
           ELSE /\ hdiutil' = local_version.hd
                /\ ops' = [ops EXCEPT ![p].extract = @ + 1]
                /\ lastCall' = [valid |-> TRUE, path |-> item_path, bundle |-> bundle,
                                ret |-> local_version.ret, exc |-> local_version.exc,
                                before |-> hdiutil, after |-> local_version.hd]
                /\ IF exc # "none"
                     THEN /\ pc' = [pc EXCEPT ![p] = "failed"]
                          /\ frame' = [frame EXCEPT ![p].exc = exc]
                          /\ UNCHANGED env
                     ELSE IF same.eq
                       THEN /\ pc' = [pc EXCEPT ![p] = "copy"]
                            /\ frame' = [frame EXCEPT ![p].installer = item_path]
                            /\ env' = [env EXCEPT ![p].summary = (frame[p].phase = "downloaded")]
                       ELSE /\ frame' = [frame EXCEPT ![p].idx = @ + 1]
                            /\ UNCHANGED <<pc, env>>
  /\ UNCHANGED <<apps, cache, cacheDirs, runs, prev, catalog, mlog>>

\* get_local_installer returns None: the first scan goes on to the download,
\* the scan of download_macos raises
ScanEnd(p) ==
  /\ pc[p] = "scan"
  /\ frame[p].idx > Len(frame[p].listing)
  /\ IF frame[p].phase = "local"
       THEN /\ pc' = [pc EXCEPT ![p] = "download"]
            /\ UNCHANGED frame
       ELSE /\ pc' = [pc EXCEPT ![p] = "failed"]
            /\ frame' = [frame EXCEPT ![p].exc = "ProcessorError: Download was not successful"]
  /\ UNCHANGED <<apps, cache, cacheDirs, hdiutil, env, ops, runs, prev, lastCall, catalog, mlog>>

\* what softwareupdate --fetch-full-installer can leave in /Applications: a
\* bundle with only a support image, whose asset descriptor may not be readable
FetchedKinds(version) ==
  [marker : {TRUE}, hasPlist : {FALSE}, plistVersion : {EmptyString}, hasDmg : {TRUE},
   dmg : {FetchedImage(version), [FetchedImage(EmptyString) EXCEPT !.readable = FALSE]}]

\* download_macos up to its os.listdir: subprocess.run of softwareupdate, whose
\* exit status is not looked at; only a failure to execute it raises
Download(p) ==
  /\ pc[p] = "download"
  /\ \E outcome \in {"OSError", "nothing", "fetched"} :
       IF outcome = "OSError"
         THEN /\ ops' = [ops EXCEPT ![p].download = @ + 1]
              /\ pc' = [pc EXCEPT ![p] = "failed"]
              /\ frame' = [frame EXCEPT ![p].exc = "ProcessorError: OSError"]
              /\ UNCHANGED apps
         ELSE /\ \E kind \in FetchedKinds(env[p].version) :
                   apps' = IF outcome = "fetched"
                             THEN Append(apps, Bundle(AppNames[Len(apps) + 1], kind))
                             ELSE apps
              /\ ops' = [ops EXCEPT ![p].download = @ + 1, ![p].listdir = @ + 1]
              /\ pc' = [pc EXCEPT ![p] = "scan"]
              /\ frame' = [frame EXCEPT ![p].listing = Listdir(apps'), ![p].idx = 1,
                                        ![p].phase = "downloaded"]
  /\ UNCHANGED <<cache, cacheDirs, hdiutil, env, runs, prev, lastCall, catalog, mlog>>

\* os.makedirs(cache_path, exist_ok=True); shutil.copytree(installer, installer_cache_path)
\* copytree raises when the destination exists, and leaves a partial copy when it
\* fails on the way
Copy(p) ==
  /\ pc[p] = "copy"
  /\ cacheDirs' = cacheDirs \cup {env[p].cache_dir}
  /\ ops' = [ops EXCEPT ![p].copy = @ + 1]
  /\ \E copied \in BOOLEAN :
       IF Exists(env[p].pathname)
         THEN /\ pc' = [pc EXCEPT ![p] = "failed"]
              /\ frame' = [frame EXCEPT ![p].exc = "FileExistsError"]
              /\ UNCHANGED cache
         ELSE /\ cache' = copytree(cache, frame[p].installer, env[p].pathname, copied)
              /\ pc' = [pc EXCEPT ![p] = IF copied THEN "done" ELSE "failed"]
              /\ frame' = [frame EXCEPT ![p].exc = IF copied THEN "none" ELSE "shutil.Error"]
  /\ UNCHANGED <<apps, hdiutil, env, runs, prev, lastCall, catalog, mlog>>

Next ==
  \E p \in Procs :
    \/ Start(p)
    \/ ScanItem(p)
    \/ ScanEnd(p)
    \/ Download(p)
    \/ Copy(p)

Spec == Init /\ [][Next]_vars

\* ------------------------------------------------------------------ resolvers
\* self.env of macOSReleaseProvider and DownloadMacOS: the keys set so far and
\* their values
NoOutputs ==
  [keys |-> {}, version |-> EmptyString, release |-> EmptyString, size |-> EmptyString,
   pathname |-> None, changed |-> FALSE]

\* what the catalog command can do: fail to execute, or run, exit with status 0
\* or 1 and print a listing
Catalogs ==
  {[exec |-> "OSError", status |-> 1, stdout |-> EmptyString]}
  \cup {[exec |-> "ok", status |-> st, stdout |-> Join(lines, "\n")] :
          st \in {0, 1}, lines \in Listings}

\* number of entries of /Applications when DownloadMacOS runs
MaxScanned == 1

\* the bundles /Applications holds when DownloadMacOS runs: those with no support
\* image, and one left by an earlier fetch
ScannedKinds ==
  {k \in BundleKinds : ~k.hasDmg \/ (~k.hasPlist /\ k.dmg = FetchedImage(V_12_3))}

InitCatalog ==
  /\ catalog \in Catalogs
  /\ \E processor \in {"macOSReleaseProvider", "DownloadMacOS"} :
       /\ pc = [p \in Procs |-> processor]
       /\ \E kinds \in UNION {[1..n -> ScannedKinds] : n \in 0..MaxScanned} :
            /\ processor = "macOSReleaseProvider" => kinds = <<>>
            /\ apps = [i \in 1..Len(kinds) |-> Bundle(AppNames[i], kinds[i])]
  /\ cache = {}
  /\ cacheDirs = {}
  /\ hdiutil = NoImages
  /\ env = [p \in Procs |-> NoOutputs]
  /\ frame = [p \in Procs |-> [NoFrame EXCEPT !.processor = pc[p]]]
  /\ ops = [p \in Procs |-> NoOps]
  /\ runs = 0
  /\ prev = NoRun
  /\ lastCall = NoCall
  /\ mlog = <<>>

\* macOSReleaseProvider.main: get_update, then version, release and size
ReleaseProviderMain(p) ==
  /\ pc[p] = "macOSReleaseProvider"
  /\ LET r == get_update(catalog, FALSE)
     IN  IF r.exc # "none"
           THEN /\ pc' = [pc EXCEPT ![p] = "failed"]
                /\ frame' = [frame EXCEPT ![p].exc = r.exc]
                /\ UNCHANGED env
           ELSE /\ pc' = [pc EXCEPT ![p] = "done"]
                /\ frame' = [frame EXCEPT ![p].update = r.update]
                /\ env' = [env EXCEPT ![p].keys = @ \cup {"version", "release", "size"},
                                      ![p].version = r.update.version,
                                      ![p].release = r.update.name,
                                      ![p].size = r.update.size]
  /\ runs' = runs + 1
  /\ UNCHANGED <<apps, cache, cacheDirs, hdiutil, ops, prev, lastCall, catalog, mlog>>

\* DownloadMacOS.main up to the first os.listdir: get_update, changed = False
CombinedMain(p) ==
  /\ pc[p] = "DownloadMacOS"
  /\ LET r == get_update(catalog, TRUE)
     IN  IF r.exc # "none"
           THEN /\ pc' = [pc EXCEPT ![p] = "failed"]
                /\ frame' = [frame EXCEPT ![p].exc = r.exc]
                /\ UNCHANGED <<env, ops>>
           ELSE /\ pc' = [pc EXCEPT ![p] = "scan"]
                /\ frame' = [frame EXCEPT ![p].update = r.update,
                                          ![p].listing = Listdir(apps)]
                /\ env' = [env EXCEPT ![p].keys = @ \cup {"changed"}, ![p].changed = FALSE]
                /\ ops' = [ops EXCEPT ![p].listdir = @ + 1]
  /\ runs' = runs + 1
  /\ UNCHANGED <<apps, cache, cacheDirs, hdiutil, prev, lastCall, catalog, mlog>>

\* one iteration of the loop of DownloadMacOS.get_local_installer; on a match
\* main sets pathname, version, release and size
CombinedScanItem(p) ==
  /\ pc[p] = "scan"
  /\ frame[p].idx <= Len(frame[p].listing)
  /\ LET item == frame[p].listing[frame[p].idx]
         item_path == ItemPath(ApplicationsDir, item)
         bundle == BundleAt(apps, item)
         update == frame[p].update
         local_version == get_os_version(hdiutil, item_path, bundle)
         same == VersionEq(local_version.ret, update.version)
         exc == IF local_version.exc # "none" THEN local_version.exc ELSE same.exc
     IN  IF ~bundle.marker
           THEN /\ frame' = [frame EXCEPT ![p].idx = @ + 1]
                /\ UNCHANGED <<hdiutil, pc, env, ops, lastCall>>
           ELSE /\ hdiutil' = local_version.hd
                /\ ops' = [ops EXCEPT ![p].extract = @ + 1]
                /\ lastCall' = [valid |-> TRUE, path |-> item_path, bundle |-> bundle,
                                ret |-> local_version.ret, exc |-> local_version.exc,
                                before |-> hdiutil, after |-> local_version.hd]
                /\ IF exc # "none"
                     THEN /\ pc' = [pc EXCEPT ![p] = "failed"]
                          /\ frame' = [frame EXCEPT ![p].exc = exc]
                          /\ UNCHANGED env
                     ELSE IF same.eq
                       THEN /\ pc' = [pc EXCEPT ![p] = "done"]
                            /\ frame' = [frame EXCEPT ![p].installer = item_path]
                            /\ env' = [env EXCEPT
                                 ![p].keys = @ \cup {"pathname", "version", "release", "size"},
                                 ![p].pathname = item_path,
                                 ![p].version = update.version,
                                 ![p].release = update.name,
                                 ![p].size = update.size]
                       ELSE /\ frame' = [frame EXCEPT ![p].idx = @ + 1]
                            /\ UNCHANGED <<pc, env>>
  /\ UNCHANGED <<apps, cache, cacheDirs, runs, prev, catalog, mlog>>

\* DownloadMacOS.get_local_installer returns None: main sets changed = True and
\* downloads, download_macos raises
CombinedScanEnd(p) ==
  /\ pc[p] = "scan"
  /\ frame[p].idx > Len(frame[p].listing)
  /\ IF frame[p].phase = "local"
       THEN /\ pc' = [pc EXCEPT ![p] = "download"]
            /\ env' = [env EXCEPT ![p].changed = TRUE]
            /\ UNCHANGED frame
       ELSE /\ pc' = [pc EXCEPT ![p] = "failed"]
            /\ frame' = [frame EXCEPT ![p].exc = "ProcessorError: Download was not successful"]
            /\ UNCHANGED env
  /\ UNCHANGED <<apps, cache, cacheDirs, hdiutil, ops, runs, prev, lastCall, catalog, mlog>>

\* DownloadMacOS.download_macos up to its os.listdir
CombinedDownload(p) ==
  /\ pc[p] = "download"
  /\ \E outcome \in {"OSError", "nothing", "fetched"} :
       IF outcome = "OSError"
         THEN /\ ops' = [ops EXCEPT ![p].download = @ + 1]
              /\ pc' = [pc EXCEPT ![p] = "failed"]
              /\ frame' = [frame EXCEPT ![p].exc = "ProcessorError: OSError"]
              /\ UNCHANGED apps
         ELSE /\ \E kind \in FetchedKinds(frame[p].update.version) :
                   apps' = IF outcome = "fetched"
                             THEN Append(apps, Bundle(AppNames[Len(apps) + 1], kind))
                             ELSE apps
              /\ ops' = [ops EXCEPT ![p].download = @ + 1, ![p].listdir = @ + 1]
              /\ pc' = [pc EXCEPT ![p] = "scan"]
              /\ frame' = [frame EXCEPT ![p].listing = Listdir(apps'), ![p].idx = 1,
                                        ![p].phase = "downloaded"]
  /\ UNCHANGED <<cache, cacheDirs, hdiutil, env, runs, prev, lastCall, catalog, mlog>>

NextCatalog ==
  \E p \in Procs :
    \/ ReleaseProviderMain(p)
    \/ CombinedMain(p)
    \/ CombinedScanItem(p)
    \/ CombinedScanEnd(p)
    \/ CombinedDownload(p)

SpecCatalog == InitCatalog /\ [][NextCatalog]_vars

\* ------------------------------------------------------------------ the mounter alone
\* number of disk images of the mounter's world
MaxImages == 2
\* number of mount_dmg and unmount_dmg calls in one behaviour
MaxCalls == 4

ImageOnlyKinds == {k \in BundleKinds : k.hasDmg /\ ~k.hasPlist}

InitMount ==
  /\ \E kinds \in UNION {[1..n -> ImageOnlyKinds] : n \in 1..MaxImages} :
       apps = [i \in 1..Len(kinds) |-> Bundle(AppNames[i], kinds[i])]
  /\ \E imgs \in LeftAttached(apps) : hdiutil = [NoImages EXCEPT !.images = imgs]
  /\ mlog = <<>>
  /\ cache = {}
  /\ cacheDirs = {}
  /\ pc = [p \in Procs |-> "idle"]
  /\ env = [p \in Procs |-> NoEnv]
  /\ frame = [p \in Procs |-> NoFrame]
  /\ ops = [p \in Procs |-> NoOps]
  /\ runs = 0
  /\ prev = NoRun
  /\ lastCall = NoCall
  /\ catalog = NoCatalog

\* a call of mount_dmg on the support image of a bundle
MountCall(i) ==
  /\ i <= Len(apps)
  /\ Len(mlog) < MaxCalls
  /\ LET path == SharedSupportDmg(ItemPath(ApplicationsDir, apps[i].name))
         m == mount_dmg(hdiutil, path, apps[i].dmg)
     IN  /\ hdiutil' = m.hd
         /\ mlog' = Append(mlog, [op |-> "mount", path |-> path, ret |-> m.ret,
                                  exc |-> m.exc, attach |-> m.hd.attach])
  /\ UNCHANGED <<apps, cache, cacheDirs, pc, env, frame, ops, runs, prev, lastCall, catalog>>

\* a call of unmount_dmg on the mount point of an image that is mounted
UnmountCall(i) ==
  /\ i <= Len(apps)
  /\ Len(mlog) < MaxCalls
  /\ LET path == SharedSupportDmg(ItemPath(ApplicationsDir, apps[i].name))
         u == unmount_dmg(hdiutil, VolumeOf(path))
     IN  /\ get_dmg_mount_point(hdiutil, path).ret = VolumeOf(path)
         /\ hdiutil' = u.hd
         /\ mlog' = Append(mlog, [op |-> "unmount", path |-> path, ret |-> None,
                                  exc |-> u.exc, attach |-> u.hd.attach])
  /\ UNCHANGED <<apps, cache, cacheDirs, pc, env, frame, ops, runs, prev, lastCall, catalog>>

NextMount ==
  \E i \in 1..MaxImages :
    \/ MountCall(i)
    \/ UnmountCall(i)

SpecMount == InitMount /\ [][NextMount]_vars

\* ------------------------------------------------------------------ two runs at once
\* two macOSDownloader processes started against the same RECIPE_CACHE_DIR and
\* the same /Applications; each executes main as above, one step at a time
Racers == {1, 2}

\* number of entries of /Applications when the two processes start
MaxRaceApps == 1

\* the bundles /Applications holds then: those with a direct descriptor and no
\* support image
RaceKinds == {k \in BundleKinds : k.hasPlist /\ ~k.hasDmg}

InitRace ==
  /\ \E kinds \in UNION {[1..n -> RaceKinds] : n \in 0..MaxRaceApps} :
       apps = [i \in 1..Len(kinds) |-> Bundle(AppNames[i], kinds[i])]
  /\ cache = {}
  /\ cacheDirs = {}
  /\ hdiutil = NoImages
  /\ pc = [p \in Racers |-> "idle"]
  /\ env = [p \in Racers |-> NoEnv]
  /\ frame = [p \in Racers |-> NoFrame]
  /\ ops = [p \in Racers |-> NoOps]
  /\ runs = 0
  /\ prev = NoRun
  /\ lastCall = NoCall
  /\ catalog = NoCatalog
  /\ mlog = <<>>

NextRace ==
  \E p \in Racers :
    \/ Start(p)
    \/ ScanItem(p)
    \/ ScanEnd(p)
    \/ Download(p)
    \/ Copy(p)

SpecRace == InitRace /\ [][NextRace]_vars

\* ------------------------------------------------------------------ claims
\* the number of attached images with this image-path that have a mount point
MountsHeld(hd, path) ==
  Cardinality({i \in 1..Len(hd.images) :
                 hd.images[i].path = path /\ FirstMountPoint(hd.images[i].entities) # None})

\* the last get_os_version call was on a bundle with no direct descriptor but
\* with an embedded support image
ImageOnlyCall == lastCall.valid /\ ~lastCall.bundle.hasPlist /\ lastCall.bundle.hasDmg

\* in that call mount_dmg returned a mount point: the image was attached
\* already, or hdiutil attach succeeded and listed a mount point
MountReturned ==
  \/ MountsHeld(lastCall.before, SharedSupportDmg(lastCall.path)) > 0
  \/ lastCall.bundle.dmg.attach = "ok"

\* C2: of two runs of main in succession with the same version and release, the
\* first starting without a cache entry and succeeding, the first reports
\* changed = True and the second changed = False, and the second neither
\* downloads nor copies.
C2_SecondRunIsCacheHit ==
  \A p \in Procs :
    (/\ prev.valid /\ prev.ok /\ ~prev.existed
     /\ prev.version = env[p].version /\ prev.release = env[p].release)
    => /\ prev.changed
       /\ pc[p] = "done"
       /\ env[p].changed = FALSE
       /\ ops[p].download = 0
       /\ ops[p].copy = 0

C2_Witness ==
  /\ prev.valid /\ prev.ok /\ ~prev.existed /\ prev.changed /\ prev.copies = 1
  /\ prev.version = env[1].version /\ prev.release = env[1].release
  /\ pc[1] = "done" /\ ~env[1].changed

\* C3 as claimed: every call of get_os_version on a bundle with only a support
\* image mounts the image, unmounts it before the call ends and leaves no mount
\* of that image behind.
C3_AlwaysMountedAndReleased ==
  ImageOnlyCall
  => /\ MountReturned
     /\ lastCall.after.detach = lastCall.before.detach + 1
     /\ MountsHeld(lastCall.after, SharedSupportDmg(lastCall.path)) = 0

\* C3 as amended: on such a bundle, when mount_dmg returns a mount point,
\* unmount_dmg is invoked exactly once before the call ends, whether the nested
\* read succeeds or fails; when the detach succeeds the call returns the version
\* read ('' when the read failed) and no mount of the image is left, and when the
\* detach fails the call raises and the mount is left.  When mount_dmg raises,
\* nothing is detached.
C3_ScopedMount ==
  ImageOnlyCall
  => LET dmg == lastCall.bundle.dmg
         held == MountsHeld(lastCall.after, SharedSupportDmg(lastCall.path))
     IN  IF ~MountReturned
           THEN /\ lastCall.after.detach = lastCall.before.detach
                /\ lastCall.exc # "none"
           ELSE /\ lastCall.after.detach = lastCall.before.detach + 1
                /\ IF dmg.busy
                     THEN lastCall.exc = "CalledProcessError" /\ held > 0
                     ELSE /\ lastCall.exc = "none"
                          /\ held = 0
                          /\ lastCall.ret = (IF dmg.readable THEN dmg.asset ELSE EmptyString)

\* the nested read failed, the image was mounted for it and is released
C3_Witness ==
  /\ ImageOnlyCall
  /\ lastCall.bundle.dmg.attach = "ok" /\ ~lastCall.bundle.dmg.readable /\ ~lastCall.bundle.dmg.busy
  /\ lastCall.after.attach = lastCall.before.attach + 1
  /\ lastCall.after.detach = lastCall.before.detach + 1
  /\ lastCall.ret = EmptyString /\ lastCall.exc = "none"
  /\ MountsHeld(lastCall.after, SharedSupportDmg(lastCall.path)) = 0

C7_CacheHitDoesNothing ==
  [][\A p \in Procs :
       (/\ runs' = runs + 1
        /\ \E e \in cache : e.path = installer_cache_path(env'[p].version, env'[p].release))
       => /\ pc'[p] = "done"
          /\ env'[p].changed = FALSE
          /\ env'[p].pathname = installer_cache_path(env'[p].version, env'[p].release)
          /\ env'[p].cache_dir = cache_path(env'[p].version)
          /\ ops'[p] = NoOps
          /\ hdiutil' = [hdiutil EXCEPT !.info = 0, !.attach = 0, !.detach = 0]
          /\ UNCHANGED <<apps, cache, cacheDirs, lastCall>>]_vars

\* a cache hit on an entry left by a copy that failed on the way
C7_Witness ==
  /\ frame[1].existed /\ pc[1] = "done" /\ ~env[1].changed
  /\ \E e \in cache : e.path = env[1].pathname /\ ~e.complete

\* C9 as claimed: when hdiutil detach fails while get_os_version releases the
\* support image, get_os_version still returns its result and raises nothing.
C9_FailedDetachNotFatal ==
  (ImageOnlyCall /\ MountReturned /\ lastCall.bundle.dmg.busy)
  => /\ lastCall.exc = "none"
     /\ lastCall.ret = (IF lastCall.bundle.dmg.readable
                          THEN lastCall.bundle.dmg.asset ELSE EmptyString)

\* ---- the resolvers
\* the processor has run get_update
Resolved(p) == pc[p] \notin {"macOSReleaseProvider", "DownloadMacOS"}

\* the lines of the catalog output that hold the marker "Version"
MarkedLines == SelectSeq(Split(catalog.stdout, "\n"), LAMBDA l : Contains(l, Marker))

\* the versions of the parsed candidates
CandidateVersions ==
  {ParseLine(MarkedLines[i], FALSE).update.version : i \in 1..Len(MarkedLines)}

\* a < b for lists of numbers, compared left to right
RECURSIVE ListLess(_, _)
ListLess(a, b) ==
  IF b = <<>> THEN FALSE
  ELSE IF a = <<>> THEN TRUE
  ELSE IF Head(a) # Head(b) THEN Head(a) < Head(b)
  ELSE ListLess(Tail(a), Tail(b))

\* a >= b under dotted-component comparison: the components compared as numbers,
\* left to right
DottedGE(a, b) == ~ListLess(LooseVersion(a), LooseVersion(b))

\* C1 as claimed: the record get_update returns has a version greater than or
\* equal to the version of every parsed candidate under dotted-component
\* comparison; of "12.9" and "12.10" it returns "12.10".
C1_ReturnsGreatestVersion ==
  \A p \in Procs :
    (Resolved(p) /\ frame[p].update # NoUpdate)
    => \A v \in CandidateVersions : DottedGE(frame[p].update.version, v)

\* C6: when the command runs and no line of its output holds "Version",
\* get_update raises the no-updates error; no version, release or size is set,
\* and DownloadMacOS lists no directory, extracts no version and downloads nothing.
C6_NoCandidateIsNotFound ==
  \A p \in Procs :
    (Resolved(p) /\ catalog.exec = "ok" /\ MarkedLines = <<>>)
    => /\ pc[p] = "failed"
       /\ frame[p].exc = "ProcessorError: no updates"
       /\ frame[p].update = NoUpdate
       /\ env[p] = NoOutputs
       /\ ops[p] = NoOps
       /\ hdiutil = NoImages
       /\ lastCall = NoCall

\* DownloadMacOS fails on a listing of header lines although /Applications holds
\* an installer bundle
C6_Witness ==
  /\ frame[1].processor = "DownloadMacOS"
  /\ pc[1] = "failed" /\ frame[1].exc = "ProcessorError: no updates"
  /\ catalog.stdout = Header \o <<"\n">> \o Header
  /\ \E i \in 1..Len(apps) : apps[i].marker /\ apps[i].hasPlist

\* the text after the first colon of a comma-segment, trimmed
AfterFirstColon(segment) ==
  Strip(SubSeq(segment, IndexOf(segment, ":") + 1, Len(segment)))

\* the leading digits of a size
RECURSIVE NumericPart(_)
NumericPart(size) ==
  IF size # <<>> /\ IsDigit(Head(size)) THEN <<Head(size)>> \o NumericPart(Tail(size))
  ELSE <<>>

\* C8 as claimed: a listing of one candidate line "K1: v1, K2: v2, K3: v3"
\* resolves to the record whose name, version and size are the texts after the
\* first colon of the three comma-segments, trimmed; DownloadMacOS gives the
\* size as the numeric part times 1000, macOSReleaseProvider as the raw text.
C8_ParsesPositionally ==
  \A p \in Procs :
    (Resolved(p) /\ catalog.exec = "ok" /\ Len(MarkedLines) = 1)
    => LET segments == Split(MarkedLines[1], ",")
           size == AfterFirstColon(segments[3])
       IN  /\ frame[p].update.name = AfterFirstColon(segments[1])
           /\ frame[p].update.version = AfterFirstColon(segments[2])
           /\ frame[p].update.size =
                (IF frame[p].processor = "DownloadMacOS"
                   THEN Times1000(Numeral(NumericPart(size))) ELSE size)

\* C10 as claimed: when the catalog command fails to execute or exits with a
\* non-zero status, get_update raises a process error and returns no update,
\* whatever the command printed.
C10_FailedCommandIsFatal ==
  \A p \in Procs :
    (Resolved(p) /\ (catalog.exec # "ok" \/ catalog.status # 0))
    => /\ pc[p] = "failed"
       /\ frame[p].update = NoUpdate

\* ---- the mounter
\* calls i < j of mlog are mount_dmg calls on the same image path, the first
\* returned a mount point, and no unmount_dmg call lies between them
MountedTwice(i, j) ==
  /\ i < j
  /\ mlog[i].op = "mount" /\ mlog[j].op = "mount"
  /\ mlog[i].path = mlog[j].path
  /\ mlog[i].exc = "none"
  /\ \A k \in (i + 1)..(j - 1) : mlog[k].op # "unmount"

\* the number of hdiutil attach invocations made by call i of mlog
AttachesIn(i) == mlog[i].attach - (IF i = 1 THEN 0 ELSE mlog[i - 1].attach)

InFlight(q, path) ==
  pc[q] \in {"scan", "download", "copy"} /\ env[q].pathname = path /\ ~frame[q].existed

\* C11: nothing keeps a second run of main from deciding "not cached" while a
\* first run with the same version and release is between its cache check and
\* its copy: the second run's check sees no entry, sets changed = True and goes on
\* to the scan; and two runs that have both called copytree on one
\* installer_cache_path have both reported changed = True.  Such a pair of runs
\* is reachable (C11_Witness).
C11_NoLockBetweenCheckAndCopy ==
  [][\A p \in DOMAIN pc : \A q \in DOMAIN pc \ {p} :
       (/\ pc[p] \in {"idle", "done", "failed"} /\ pc'[p] \notin {"idle", "failed"}
        /\ runs' = runs + 1
        /\ InFlight(q, env'[p].pathname)
        /\ ~\E e \in cache : e.path = env'[p].pathname)
       => /\ pc'[p] = "scan"
          /\ env'[p].changed
          /\ ~frame'[p].existed
          /\ UNCHANGED <<pc[q], env[q], frame[q], cache>>]_vars

\* both runs saw no cache entry, both set changed and both called copytree with
\* the same destination, the second while the first's copy was there
C11_Witness ==
  /\ env[1].pathname = env[2].pathname
  /\ env[1].version \in TargetVersions
  /\ ~frame[1].existed /\ ~frame[2].existed
  /\ env[1].changed /\ env[2].changed
  /\ ops[1].copy = 1 /\ ops[2].copy = 1
  /\ pc[1] = "done" /\ pc[2] = "failed" /\ frame[2].exc = "FileExistsError"

\* ---- the scan and the download
\* the version a bundle carries: that of its direct descriptor, else that of the
\* asset descriptor in its support image when the image mounts and the
\* descriptor reads, else none
BundleVersion(b) ==
  IF b.hasPlist THEN b.plistVersion
  ELSE IF b.hasDmg /\ b.dmg.attach = "ok" /\ b.dmg.readable THEN b.dmg.asset
  ELSE EmptyString

\* two non-empty versions are equal component by component, as numbers
DottedEq(a, b) == a # EmptyString /\ b # EmptyString /\ LooseVersion(a) = LooseVersion(b)

\* an entry of /Applications that is an installer bundle of this version
Matches(b, version) == b.marker /\ DottedEq(BundleVersion(b), version)

\* the positions of /Applications that hold a matching bundle
Matching(dir, version) == {i \in 1..Len(dir) : Matches(dir[i], version)}

\* run p of main has ended and began without a cache entry
EndedUncached(p) == pc[p] \in {"done", "failed"} /\ env[p].version # EmptyString /\ ~frame[p].existed

\* C12 as claimed: of a run of main that began without a cache entry,
\*  - the download command is invoked at most once, and when the run ends with
\*    no download, /Applications held a matching bundle and a copy made by the
\*    run has a matching bundle as its source;
\*  - when /Applications holds no matching bundle at the end of a run whose
\*    first scan was the only one, the download command was invoked once;
\*  - when it holds none after the download, the run fails with the
\*    download-unsuccessful error and has called neither makedirs nor copytree.
C12_DownloadOnlyWhenAbsent ==
  \A p \in Procs :
    EndedUncached(p)
    => LET version == env[p].version
           none == Matching(apps, version) = {}
       IN  /\ ops[p].download <= 1
           /\ (ops[p].download = 0 /\ pc[p] = "done")
                => \E i \in Matching(apps, version) :
                     \E e \in cache : /\ e.path = env[p].pathname
                                      /\ e.source = ItemPath(ApplicationsDir, apps[i].name)
           /\ (none /\ frame[p].phase = "local") => ops[p].download = 1
           /\ (none /\ frame[p].phase = "downloaded")
                => /\ pc[p] = "failed"
                   /\ frame[p].exc = "ProcessorError: Download was not successful"
                   /\ ops[p].copy = 0
                   /\ ~\E e \in cache : e.path = env[p].pathname

\* ---- mount failures
\* the disk image at an image path of the mounter's world
ImageAt(path) ==
  apps[CHOOSE i \in 1..Len(apps) :
         SharedSupportDmg(ItemPath(ApplicationsDir, apps[i].name)) = path].dmg

\* call i of mlog is a mount_dmg call on an image that is not mounted and that
\* hdiutil attach cannot mount: attach exits non-zero, or it succeeds and lists
\* no entity with a mount point
FailedMount(i) ==
  /\ mlog[i].op = "mount"
  /\ ImageAt(mlog[i].path).attach \in {"fail", "nomp"}

\* C13 as claimed: mount_dmg on an image that is not mounted raises the
\* "Could not mount" ProcessorError both when hdiutil attach fails and when it
\* succeeds without listing a mount point, and returns no mount point.
C13_MountFailureIsMountError ==
  \A i \in 1..Len(mlog) :
    FailedMount(i)
    => /\ mlog[i].exc = "ProcessorError: Could not mount"
       /\ mlog[i].ret = None

\* ---- the scan
\* the positions of the listing run p scans that hold a matching bundle
MatchingListed(p) ==
  {i \in 1..Len(frame[p].listing) :
     Matches(BundleAt(apps, frame[p].listing[i]), env[p].version)}

\* C14 as claimed: get_local_installer returns the first entry of the listing
\* that has the marker file and whose version equals the target component by
\* component, examining no entry after it; it returns None only when no entry
\* of the listing qualifies; get_os_version is called on no entry without the
\* marker file; and an entry whose version is '' is passed over as not
\* matching, the comparison raising nothing.
C14_FirstMatchInListingOrder ==
  \A p \in Procs :
    /\ frame[p].installer # None
         => /\ MatchingListed(p) # {}
            /\ frame[p].idx \in MatchingListed(p)
            /\ \A i \in MatchingListed(p) : frame[p].idx <= i
            /\ frame[p].installer = ItemPath(ApplicationsDir, frame[p].listing[frame[p].idx])
    /\ (pc[p] = "download" \/ frame[p].exc = "ProcessorError: Download was not successful")
         => MatchingListed(p) = {}
    /\ lastCall.valid => lastCall.bundle.marker
    /\ frame[p].exc # "AttributeError"

\* ---- the outcome of a run
\* C15: a run of main that ends without an error has installer_cache_path
\* existing and reported as pathname, cache_dir =
\* RECIPE_CACHE_DIR/downloads/<version>, and changed = True exactly when
\* installer_cache_path did not exist when the run began; when changed is True
\* the run made exactly one copytree call, the entry at pathname is the complete
\* copy that call made, and its source is a bundle of /Applications that has the
\* marker file and whose version equals the target version.
C15_SuccessfulRunLeavesCacheEntry ==
  \A p \in Procs :
    pc[p] = "done"
    => LET dir == [root |-> "RECIPE_CACHE_DIR", sub |-> "downloads", version |-> env[p].version]
           path == [dir |-> dir, install |-> env[p].release]
       IN  /\ env[p].cache_dir = dir
           /\ env[p].pathname = path
           /\ \E e \in cache : e.path = path
           /\ env[p].changed = ~frame[p].existed
           /\ ~env[p].changed => ops[p].copy = 0
           /\ env[p].changed
                => /\ ops[p].copy = 1
                   /\ cache_path(env[p].version) \in cacheDirs
                   /\ \A e \in cache :
                        e.path = path
                        => /\ e.complete
                           /\ e.source = frame[p].installer
                           /\ \E i \in Matching(apps, env[p].version) :
                                e.source = ItemPath(ApplicationsDir, apps[i].name)

\* a run that found no matching bundle among two entries, downloaded the
\* installer and copied the fetched bundle into the cache
C15_Witness ==
  /\ pc[1] = "done" /\ env[1].changed /\ ~frame[1].existed
  /\ ops[1].download = 1 /\ ops[1].copy = 1
  /\ Len(apps) = 3
  /\ frame[1].installer = ItemPath(ApplicationsDir, apps[3].name)
  /\ \E e \in cache : e.path = env[1].pathname /\ e.complete /\ e.source = frame[1].installer

\* ---- the combined resolver and downloader
\* C16: a run of DownloadMacOS.main that ends without an error reports as
\* pathname a bundle of /Applications that has the marker file and whose version
\* equals the version get_update returned, reports that version, reports
\* changed = True exactly when it invoked the download command, has invoked it
\* at most once, and has created no cache directory and copied nothing.
C16_CombinedReportsInstalledBundle ==
  \A p \in Procs :
    (frame[p].processor = "DownloadMacOS" /\ pc[p] = "done")
    => /\ env[p].version = frame[p].update.version
       /\ \E i \in Matching(apps, frame[p].update.version) :
            env[p].pathname = ItemPath(ApplicationsDir, apps[i].name)
       /\ env[p].changed = (ops[p].download = 1)
       /\ ops[p].download <= 1
       /\ ops[p].copy = 0
       /\ cache = {} /\ cacheDirs = {}

\* /Applications held one bundle of another version; the run downloaded and
\* reports the bundle the download left
C16_Witness ==
  /\ frame[1].processor = "DownloadMacOS" /\ pc[1] = "done"
  /\ env[1].changed /\ ops[1].download = 1
  /\ Len(apps) = 2 /\ apps[1].marker /\ apps[1].plistVersion = V_12_10
  /\ env[1].version = V_12_3
  /\ env[1].pathname = ItemPath(ApplicationsDir, apps[2].name)

====
